---- MODULE Spec2Model ----
(***************************************************************************)
(* Telemetry ingestion of backend-energy (src/server.js, first program):   *)
(* the MQTT "message" callback and the POST /energy handler both build an  *)
(* EnergyModel document and save it to MongoDB; GET /energy reads the      *)
(* collection back sorted by timestamp.                                    *)
(*                                                                         *)
(* JSON values are tagged records: [num |-> n], [str |-> s], [bool |-> b], *)
(* [null |-> TRUE].  A payload is a function from the keys it carries to   *)
(* such values; an absent key is outside its DOMAIN (undefined).           *)
(***************************************************************************)
EXTENDS Integers, Sequences, FiniteSets, TLC

\* ------------------------------------------------------------------ bounds
\* inputs (bus messages + POST requests) handled in one behaviour
MaxInputs == 2
\* Date.now() ranges over 1..MaxClock
MaxClock == 2
\* different payloads, besides the example payload, among the inputs of
\* one behaviour
MaxIrregular == 1
\* 'connect' events of the MQTT client in one behaviour
MaxConnects == 2
\* the .limit(2000) of GET /energy, scaled down so that the collection can
\* grow past it
QueryLimit == 2

\* ------------------------------------------------------------ JSON values
Num(n) == [num |-> n]
Str(s) == [str |-> s]
Bool(b) == [bool |-> b]
Null == [null |-> TRUE]
Undefined == [undefined |-> TRUE]

IsNum(v) == DOMAIN v = {"num"}
IsStr(v) == DOMAIN v = {"str"}
IsBool(v) == DOMAIN v = {"bool"}
IsNullish(v) == v = Null \/ v = Undefined

\* data.key : undefined when the object has no such key
Get(data, key) == IF key \in DOMAIN data THEN data[key] ELSE Undefined

\* faulty variant: a || b, which also replaces 0, "" and false
CoalesceOr(a, b) ==
  IF IsNullish(a) \/ a = Num(0) \/ a = Str("") \/ a = Bool(FALSE) THEN b ELSE a

\* a ?? b
Coalesce(a, b) == IF IsNullish(a) THEN b ELSE a

\* Number(s) for the strings of the model; NaN for the others
NumericStrings == {"22"}
NumberOf(s) == CASE s = "22" -> 22 [] OTHER -> 0

\* ------------------------------------------------------------- the schema
\* EnergySchema: nine Number paths with default null, and timestamp
EnergySchema ==
  <<"temperature", "humidity", "voltage", "current_20A", "current_30A",
    "sct013", "waterFlow", "gasDetected", "level">>

EnergyFields == {EnergySchema[i] : i \in 1..Len(EnergySchema)}

\* Mongoose's cast of a value to a Number path: null and undefined give the
\* default null, '' gives null, a numeric string its number, a boolean 1 or
\* 0; any other string is a CastError.
CastFails(v) == IsStr(v) /\ v.str # "" /\ v.str \notin NumericStrings

CastNumber(v) ==
  IF IsNullish(v) THEN Null
  ELSE IF IsNum(v) THEN v
  ELSE IF IsBool(v) THEN Num(IF v.bool THEN 1 ELSE 0)
  ELSE IF IsStr(v) /\ v.str \in NumericStrings THEN Num(NumberOf(v.str))
  ELSE Null

\* new EnergyModel(obj) at time now: paths of the schema are cast, keys
\* outside the schema are dropped (strict), timestamp defaults to Date.now;
\* a failed cast is kept in the document and makes save() reject.
EnergyModel(obj, now) ==
  [f |-> [k \in EnergyFields |-> CastNumber(Get(obj, k))],
   timestamp |-> IF IsNum(Get(obj, "timestamp")) THEN obj.timestamp.num ELSE now,
   castError |-> \E k \in EnergyFields : CastFails(Get(obj, k))]

\* ---------------------------------------------------- POST /energy schema
\* Joi.number().optional(): an absent key passes, a number passes, a string
\* passes when it converts to a number; null, booleans and other strings
\* are "must be a number".
\* faulty variant: Joi.any(): every string passes
JoiAny(v) ==
  v = Undefined \/ IsNum(v) \/ IsStr(v)

JoiNumber(v) ==
  v = Undefined \/ IsNum(v) \/ (IsStr(v) /\ v.str \in NumericStrings)

\* schema.validate(req.body): the keys of the schema are checked in the
\* order they are declared and the first failure is reported; a key the
\* schema does not declare is "is not allowed".  error is "" without one.
FirstBad(body) ==
  LET bad == {i \in 1..Len(EnergySchema) : ~JoiNumber(Get(body, EnergySchema[i]))}
  IN  IF bad = {} THEN 0 ELSE CHOOSE i \in bad : \A j \in bad : i <= j

SchemaValidate(body) ==
  LET i == FirstBad(body)
      unknown == DOMAIN body \ EnergyFields
  IN  IF i # 0
        THEN [error |-> "must be a number", key |-> EnergySchema[i]]
      ELSE IF unknown # {}
        THEN [error |-> "is not allowed", key |-> CHOOSE k \in unknown : TRUE]
      ELSE [error |-> "", key |-> ""]

\* ------------------------------------------------------------- the inputs
\* {"temperature":22.5,"humidity":40,"voltage":230,"gasDetected":0}
\* (values are integers here: 22.5 is written 22)
ExamplePayload ==
  [temperature |-> Num(22), humidity |-> Num(40), voltage |-> Num(230),
   gasDetected |-> Num(0)]
\* one field of the wrong type
HotPayload == [temperature |-> Str("hot"), humidity |-> Num(40)]
\* values outside the ranges the data model declares
RangePayload == [humidity |-> Num(150), level |-> Num(-5), voltage |-> Num(-1)]
\* a number written as a string
StringPayload == [temperature |-> Str("22")]

Payloads == {ExamplePayload, HotPayload, RangePayload, StringPayload}

\* Payloads of other shapes, for the behaviours of SpecShapes:
\* a key the schema does not declare
ExtraPayload == [temperature |-> Num(22), unit |-> Str("C")]
\* a partial report: no temperature, humidity explicitly null
NullPayload == [humidity |-> Null, voltage |-> Num(230)]
\* a report that carries its own timestamp (a time before the process
\* started)
TimestampPayload == [temperature |-> Num(22), timestamp |-> Num(0)]

ShapePayloads == {ExamplePayload, ExtraPayload, NullPayload, TimestampPayload}

\* A bus message is bytes: the JSON text of a payload, the JSON text null,
\* or a truncated text.
JsonText(p) == [json |-> p]
JsonNull == [json |-> Null]
Truncated == [truncated |-> TRUE]
BusMessages == {JsonText(p) : p \in Payloads} \cup {JsonNull, Truncated}
ShapeMessages == {JsonText(p) : p \in ShapePayloads}

\* faulty variant: a parser that reads a truncated text as the empty object
JSONParseLenient(msg) ==
  IF DOMAIN msg = {"json"} THEN [ok |-> TRUE, data |-> msg.json]
  ELSE [ok |-> TRUE, data |-> [k \in {} |-> Null]]

\* JSON.parse(message.toString()): throws on a text that is not JSON
JSONParse(msg) ==
  IF DOMAIN msg = {"json"} THEN [ok |-> TRUE, data |-> msg.json]
  ELSE [ok |-> FALSE, data |-> Undefined]

\* ---------------------------------------------------------------- state
VARIABLES
  process,   \* "running", "exit" after process.exit(1), or "crashed" after
             \* an 'error' event that has no listener
  mongo,     \* the mongoose connection: "connecting" or "up"
  clock,     \* Date.now()
  inputs,    \* history: the inputs handled so far, [origin, raw]
  status,    \* history: what became of each input
  detail,    \* history: the text sent or logged for each input
  pending,   \* save() calls in flight: [id, origin, doc]
  db,        \* the Energy collection, in insertion order
  query,     \* the GET /energy response on its way to the client, if any,
             \* with the count the request asked for
  bus,       \* the MQTT client: "connecting", "connected" or "disconnected"
  sub,       \* the subscription to maison/energie on the current connection:
             \* "none", "requested", "granted" or "failed"
  connects,  \* history: the 'connect' events so far
  sublog     \* history: the subscription errors logged so far

busvars == <<bus, sub, connects, sublog>>

vars == <<process, mongo, clock, inputs, status, detail, pending, db, query,
          bus, sub, connects, sublog>>

NoQuery == [status |-> 0, limit |-> 0, result |-> <<>>]

\* The collection outlives the process: at start it is empty or holds a
\* document stored by an earlier run (here one with no sensor value).
OldDoc ==
  [id |-> 0, origin |-> "old", f |-> [k \in EnergyFields |-> Null], timestamp |-> 0]

Init ==
  /\ process = "running"
  /\ mongo = "connecting"
  /\ clock = 1
  /\ inputs = <<>>
  /\ status = <<>>
  /\ detail = <<>>
  /\ pending = {}
  /\ db \in {<<>>, <<OldDoc>>}
  /\ query = NoQuery
  /\ bus = "connecting"
  /\ sub = "none"
  /\ connects = 0
  /\ sublog = 0

\* ------------------------------------------------------------ environment
\* mongoose.connect(...).then(...): the connection is open
MongoConnected ==
  /\ process = "running"
  /\ query = NoQuery
  /\ mongo = "connecting"
  /\ mongo' = "up"
  /\ UNCHANGED <<busvars, query, process, clock, inputs, status, detail, pending, db>>

\* mongoose.connect(...).catch(...): the first connection failed,
\* process.exit(1)
MongoConnectFailed ==
  /\ process = "running"
  /\ query = NoQuery
  /\ mongo = "connecting"
  /\ process' = "exit"
  /\ UNCHANGED <<busvars, query, mongo, clock, inputs, status, detail, pending, db>>

\* --------------------------------------------------------------- handlers
NextId == Len(inputs) + 1

\* Date.now() when a handler runs: not before the last value read
Now == {t \in clock..(clock + 1) : t <= MaxClock}

\* The model keeps one GET response at a time: the handlers run once the
\* client has taken it.  The inputs of a behaviour carry at most
\* MaxIrregular different payloads besides the example payload (the same
\* payload may come from the bus and in a POST).
PayloadOf(raw) == IF DOMAIN raw = {"json"} THEN raw.json ELSE raw

Irregular == {PayloadOf(inputs[i].raw) : i \in 1..Len(inputs)} \ {ExamplePayload}

MayHandle(raw) ==
  /\ query = NoQuery
  /\ Len(inputs) < MaxInputs
  /\ \/ PayloadOf(raw) = ExamplePayload
     \/ PayloadOf(raw) \in Irregular
     \/ Cardinality(Irregular) < MaxIrregular

\* client.on("message"): parse, build the document from the nine keys with
\* ?? null, start save() and return without awaiting it; whatever is thrown
\* before that (by JSON.parse, or by data.temperature when data is null) is
\* caught and logged.
ClientOnMessage(message, now) ==
  /\ process = "running"
  /\ MayHandle(message)
  /\ clock' = now
  /\ LET parsed == JSONParse(message)
         newEntry == EnergyModel(
           [k \in EnergyFields |-> Coalesce(Get(parsed.data, k), Null)], now)
     IN  /\ inputs' = Append(inputs, [origin |-> "bus", raw |-> message])
         /\ IF parsed.ok /\ parsed.data # Null
              THEN /\ pending' = pending \cup
                        {[id |-> NextId, origin |-> "bus", doc |-> newEntry]}
                   /\ status' = Append(status, "saving")
                   /\ detail' = Append(detail, "")
              ELSE /\ pending' = pending
                   /\ status' = Append(status, "dropped")
                   /\ detail' = Append(detail, "parse error")
  /\ UNCHANGED <<busvars, query, process, mongo, db>>

\* faulty variant: a handler that starts save() without awaiting it and
\* answers 201 at once
AppPostEnergyNoAwait(body, now) ==
  /\ process = "running"
  /\ MayHandle(body)
  /\ clock' = now
  /\ LET v == SchemaValidate(body)
         newData == EnergyModel(body, now)
     IN  /\ inputs' = Append(inputs, [origin |-> "api", raw |-> body])
         /\ IF v.error # ""
              THEN /\ pending' = pending
                   /\ status' = Append(status, "400")
                   /\ detail' = Append(detail, v.key)
              ELSE /\ pending' = pending \cup
                        {[id |-> NextId, origin |-> "api", doc |-> newData]}
                   /\ status' = Append(status, "201")
                   /\ detail' = Append(detail, "")
  /\ UNCHANGED <<busvars, query, process, mongo, db>>

\* app.post("/energy") up to its await: validate req.body, answer 400 with
\* the first error's message, or build the document from req.body and
\* start save().
AppPostEnergy(body, now) ==
  /\ process = "running"
  /\ MayHandle(body)
  /\ clock' = now
  /\ LET v == SchemaValidate(body)
         newData == EnergyModel(body, now)
     IN  /\ inputs' = Append(inputs, [origin |-> "api", raw |-> body])
         /\ IF v.error # ""
              THEN /\ pending' = pending
                   /\ status' = Append(status, "400")
                   /\ detail' = Append(detail, v.key)
              ELSE /\ pending' = pending \cup
                        {[id |-> NextId, origin |-> "api", doc |-> newData]}
                   /\ status' = Append(status, "saving")
                   /\ detail' = Append(detail, "")
  /\ UNCHANGED <<busvars, query, process, mongo, db>>

\* the document as the collection holds it
Stored(op) ==
  [id |-> op.id, origin |-> op.origin, f |-> op.doc.f,
   timestamp |-> op.doc.timestamp]

\* faulty variant: an insert that skips a document whose fields and
\* timestamp are already stored
SaveResolvedDedup(op) ==
  /\ process = "running"
  /\ query = NoQuery
  /\ op \in pending
  /\ ~op.doc.castError
  /\ mongo = "up"
  /\ pending' = pending \ {op}
  /\ db' = IF \E j \in 1..Len(db) :
                 db[j].f = op.doc.f /\ db[j].timestamp = op.doc.timestamp
            THEN db
            ELSE Append(db, [id |-> op.id, origin |-> op.origin, f |-> op.doc.f,
                             timestamp |-> op.doc.timestamp])
  /\ status' = [status EXCEPT ![op.id] = IF op.origin = "api" THEN "201" ELSE "saved"]
  /\ UNCHANGED <<busvars, query, process, mongo, clock, inputs, detail>>

\* faulty variant: an upsert keyed by the timestamp, which overwrites a
\* stored document of the same timestamp
SaveResolvedUpsert(op) ==
  /\ process = "running"
  /\ query = NoQuery
  /\ op \in pending
  /\ ~op.doc.castError
  /\ mongo = "up"
  /\ pending' = pending \ {op}
  /\ db' = IF \E j \in 1..Len(db) : db[j].timestamp = op.doc.timestamp
            THEN [j \in 1..Len(db) |->
                    IF db[j].timestamp = op.doc.timestamp
                      THEN [id |-> op.id, origin |-> op.origin, f |-> op.doc.f,
                            timestamp |-> op.doc.timestamp]
                      ELSE db[j]]
            ELSE Append(db, [id |-> op.id, origin |-> op.origin, f |-> op.doc.f,
                             timestamp |-> op.doc.timestamp])
  /\ status' = [status EXCEPT ![op.id] = IF op.origin = "api" THEN "201" ELSE "saved"]
  /\ UNCHANGED <<busvars, query, process, mongo, clock, inputs, detail>>

\* save() resolves: the document is inserted; .then logs (bus), or the
\* handler answers 201 (api)
SaveResolved(op) ==
  /\ process = "running"
  /\ query = NoQuery
  /\ op \in pending
  /\ ~op.doc.castError
  /\ mongo = "up"
  /\ pending' = pending \ {op}
  /\ db' = Append(db, Stored(op))
  /\ status' = [status EXCEPT ![op.id] = IF op.origin = "api" THEN "201" ELSE "saved"]
  /\ UNCHANGED <<busvars, query, process, mongo, clock, inputs, detail>>

\* faulty variant: a rejected save() that stays queued to be tried again
SaveRejectedRetry(op) ==
  /\ process = "running"
  /\ query = NoQuery
  /\ op \in pending
  /\ status[op.id] = "saving"
  /\ pending' = pending
  /\ status' = [status EXCEPT ![op.id] = IF op.origin = "api" THEN "500" ELSE "save error"]
  /\ detail' = [detail EXCEPT ![op.id] =
                  IF op.doc.castError THEN "validation" ELSE "store"]
  /\ UNCHANGED <<busvars, query, process, mongo, clock, inputs, db>>

\* save() rejects, with the document's validation error or, at any time,
\* because the store fails or does not answer in time: .catch logs (bus), or
\* the handler answers 500 (api); nothing is inserted
SaveRejected(op) ==
  /\ process = "running"
  /\ query = NoQuery
  /\ op \in pending
  /\ pending' = pending \ {op}
  /\ status' = [status EXCEPT ![op.id] = IF op.origin = "api" THEN "500" ELSE "save error"]
  /\ detail' = [detail EXCEPT ![op.id] =
                  IF op.doc.castError THEN "validation" ELSE "store"]
  /\ UNCHANGED <<busvars, query, process, mongo, clock, inputs, db>>

\* EnergyModel.find().sort({ timestamp: -1 }).limit(n) on a collection: the
\* n documents of the greatest timestamps, greatest first.  The sort key is
\* the timestamp alone, so documents of equal timestamps come in any order.
Min(a, b) == IF a < b THEN a ELSE b

Docs(coll) == {coll[i] : i \in 1..Len(coll)}

Find(coll, n) ==
  LET m == Min(Len(coll), n)
  IN  {r \in [1..m -> Docs(coll)] :
         /\ \A i, j \in 1..m : i < j =>
              r[i] # r[j] /\ r[i].timestamp >= r[j].timestamp
         /\ \A d \in Docs(coll) \ {r[i] : i \in 1..m} :
              \A i \in 1..m : d.timestamp <= r[i].timestamp}

\* the result counts a caller may ask for (GET /energy?limit=n)
Requested == {1, QueryLimit + 1}

\* faulty variant: a handler that passes the caller's count to .limit()
AppGetEnergyLimit(limit) ==
  /\ process = "running"
  /\ query = NoQuery
  /\ \/ /\ mongo = "up"
        /\ \E r \in Find(db, limit) :
             query' = [status |-> 200, limit |-> limit, result |-> r]
     \/ query' = [status |-> 500, limit |-> limit, result |-> <<>>]
  /\ UNCHANGED <<busvars, process, mongo, clock, inputs, status, detail, pending, db>>

\* faulty variant: a handler that also trims the collection to the
\* documents it returns
AppGetEnergyTrim(limit) ==
  /\ process = "running"
  /\ query = NoQuery
  /\ \/ /\ mongo = "up"
        /\ \E r \in Find(db, QueryLimit) :
             /\ query' = [status |-> 200, limit |-> limit, result |-> r]
             /\ db' = SelectSeq(db, LAMBDA d : \E q \in 1..Len(r) : r[q] = d)
     \/ /\ query' = [status |-> 500, limit |-> limit, result |-> <<>>]
        /\ db' = db
  /\ UNCHANGED <<busvars, process, mongo, clock, inputs, status, detail, pending>>

\* app.get("/energy"): the query's result as JSON, or 500 when the query
\* fails; the handler reads nothing of the request, so the count the
\* caller asks for has no effect
AppGetEnergy(limit) ==
  /\ process = "running"
  /\ query = NoQuery
  /\ \/ /\ mongo = "up"
        /\ \E r \in Find(db, QueryLimit) :
             query' = [status |-> 200, limit |-> limit, result |-> r]
     \/ query' = [status |-> 500, limit |-> limit, result |-> <<>>]
  /\ UNCHANGED <<busvars, process, mongo, clock, inputs, status, detail, pending, db>>

\* the client takes the response
ResponseTaken ==
  /\ query # NoQuery
  /\ query' = NoQuery
  /\ UNCHANGED <<busvars, process, mongo, clock, inputs, status, detail, pending, db>>

Next ==
  \/ MongoConnected
  \/ MongoConnectFailed
  \/ \E message \in BusMessages, now \in Now : ClientOnMessage(message, now)
  \/ \E body \in Payloads, now \in Now : AppPostEnergy(body, now)
  \/ \E op \in pending : SaveResolved(op)
  \/ \E op \in pending : SaveRejected(op)
  \/ \E limit \in Requested : AppGetEnergy(limit)
  \/ ResponseTaken

Spec == Init /\ [][Next]_vars

\* The same program, driven with the payloads of ShapePayloads.
NextShapes ==
  \/ MongoConnected
  \/ MongoConnectFailed
  \/ \E message \in ShapeMessages, now \in Now : ClientOnMessage(message, now)
  \/ \E body \in ShapePayloads, now \in Now : AppPostEnergy(body, now)
  \/ \E op \in pending : SaveResolved(op)
  \/ \E op \in pending : SaveRejected(op)
  \/ \E limit \in Requested : AppGetEnergy(limit)
  \/ ResponseTaken

SpecShapes == Init /\ [][NextShapes]_vars

\* -------------------------------------------------------- the MQTT client
\* mqtt.connect(process.env.MQTT_BROKER) with the library's defaults: the
\* client reconnects reconnectPeriod (1 s) after its stream has closed, and
\* emits 'error' for a socket error (ECONNREFUSED, ECONNRESET, ENOTFOUND,
\* EADDRINUSE).  The program registers listeners for 'connect' and 'message'
\* only.

\* faulty variant: a listener registered with once(), which runs for the
\* first 'connect' only
ClientOnConnectOnce ==
  /\ process = "running"
  /\ query = NoQuery
  /\ bus = "connecting"
  /\ connects < MaxConnects
  /\ bus' = "connected"
  /\ sub' = IF connects = 0 THEN "requested" ELSE "none"
  /\ connects' = connects + 1
  /\ UNCHANGED <<sublog, process, mongo, clock, inputs, status, detail, pending, db, query>>

\* client.on("connect"): the broker has accepted the connection, for the
\* first time or after a reconnect; the listener logs and calls
\* client.subscribe("maison/energie", callback)
ClientOnConnect ==
  /\ process = "running"
  /\ query = NoQuery
  /\ bus = "connecting"
  /\ connects < MaxConnects
  /\ bus' = "connected"
  /\ sub' = "requested"
  /\ connects' = connects + 1
  /\ UNCHANGED <<sublog, process, mongo, clock, inputs, status, detail, pending, db, query>>

\* the callback of client.subscribe: err => { if (err) console.error(...) }
SubscribeCallback(err) ==
  /\ process = "running"
  /\ query = NoQuery
  /\ bus = "connected"
  /\ sub = "requested"
  /\ sub' = IF err THEN "failed" ELSE "granted"
  /\ sublog' = IF err THEN sublog + 1 ELSE sublog
  /\ UNCHANGED <<bus, connects, process, mongo, clock, inputs, status, detail, pending, db, query>>

\* the client's stream closes without a socket error (the broker ends the
\* connection, or a keepalive or connect timeout): the subscription goes
\* with the session
MqttClose ==
  /\ process = "running"
  /\ query = NoQuery
  /\ bus \in {"connecting", "connected"}
  /\ bus' = "disconnected"
  /\ sub' = "none"
  /\ UNCHANGED <<connects, sublog, process, mongo, clock, inputs, status, detail, pending, db, query>>

\* the client's stream fails with a socket error (broker unreachable,
\* connection reset): the client emits 'error'; no listener is registered
\* for it, so the emit throws and the uncaught exception ends the process
MqttError ==
  /\ process = "running"
  /\ query = NoQuery
  /\ bus \in {"connecting", "connected"}
  /\ bus' = "disconnected"
  /\ sub' = "none"
  /\ process' = "crashed"
  /\ UNCHANGED <<connects, sublog, mongo, clock, inputs, status, detail, pending, db, query>>

\* the client's reconnect timer fires
MqttReconnect ==
  /\ process = "running"
  /\ query = NoQuery
  /\ bus = "disconnected"
  /\ bus' = "connecting"
  /\ UNCHANGED <<sub, connects, sublog, process, mongo, clock, inputs, status, detail, pending, db, query>>

\* the broker delivers a message of maison/energie to the subscribed client
MessageArrives(message, now) ==
  /\ bus = "connected"
  /\ sub = "granted"
  /\ ClientOnMessage(message, now)

\* The program with its bus connection, driven with the example payload.
NextBus ==
  \/ MongoConnected
  \/ MongoConnectFailed
  \/ ClientOnConnect
  \/ \E err \in BOOLEAN : SubscribeCallback(err)
  \/ MqttClose
  \/ MqttError
  \/ MqttReconnect
  \/ \E now \in Now : MessageArrives(JsonText(ExamplePayload), now)
  \/ \E now \in Now : AppPostEnergy(ExamplePayload, now)
  \/ \E op \in pending : SaveResolved(op)
  \/ \E op \in pending : SaveRejected(op)
  \/ \E limit \in Requested : AppGetEnergy(limit)
  \/ ResponseTaken

SpecBus == Init /\ [][NextBus]_vars

\* ------------------------------------------------------- reading the state
Ids == 1..Len(inputs)
\* the stored documents that came from input i
DocsOf(i) == {j \in 1..Len(db) : db[j].id = i}
InFlight(i) == \E op \in pending : op.id = i
\* the stored documents that this run inserted
New == {j \in 1..Len(db) : db[j].origin # "old"}
FromBus(i, message) == inputs[i] = [origin |-> "bus", raw |-> message]
FromApi(i, body) == inputs[i] = [origin |-> "api", raw |-> body]
\* input i carried payload p, through either origin
Carries(i, p) == PayloadOf(inputs[i].raw) = p
\* the handling of input i is over: dropped, answered, or its save() settled
Ended(i) == status[i] # "saving"
\* the handling of input i wrote a warning or an error to the log: the
\* console.error of the parse failure or of the rejected save (a stored
\* message is logged with console.log, a POST is not logged by the handler
\* unless save() rejects)
Warned(i) == status[i] \in {"dropped", "save error", "500"}
\* save() of input i failed in the store (not in the document's validation)
StoreFailed(i) == status[i] \in {"save error", "500"} /\ detail[i] = "store"
\* the document with these sensor fields set and every other one unknown
Fields(set) == [k \in EnergyFields |-> IF k \in DOMAIN set THEN set[k] ELSE Null]

\* the process ends only by the exit of a failed first connection: no
\* handler lets an exception escape
NoCrash == process = "running" \/ (process = "exit" /\ mongo = "connecting")

\* ----------------------------------------------------------------- claims

\* C1: a truncated bus message is logged and dropped (no document, no save
\* in flight, no crash), and a well-formed message delivered after it is
\* handled as usual: its save is started and, unless the store fails, ends
\* with exactly one stored document.
C1_MalformedDropped ==
  /\ NoCrash
  /\ \A i \in Ids : FromBus(i, Truncated) =>
       /\ status[i] = "dropped" /\ detail[i] = "parse error"
       /\ DocsOf(i) = {} /\ ~InFlight(i)
       /\ Cardinality(New) + Cardinality(pending) <= Len(inputs) - 1
       /\ \A j \in Ids : j > i /\ FromBus(j, JsonText(ExamplePayload)) =>
            \/ status[j] = "saving" /\ InFlight(j) /\ DocsOf(j) = {}
            \/ status[j] = "saved" /\ ~InFlight(j) /\ Cardinality(DocsOf(j)) = 1
            \/ StoreFailed(j) /\ ~InFlight(j) /\ DocsOf(j) = {}

C1_Witness ==
  \E i, j \in Ids :
    /\ i < j /\ FromBus(i, Truncated) /\ FromBus(j, JsonText(ExamplePayload))
    /\ status[j] = "saved" /\ Cardinality(DocsOf(j)) = 1

\* C2: every bus message carrying temperature: "hot" and humidity: 40
\* whose save has ended without a store failure has exactly one stored
\* document, with temperature unknown and humidity 40.
C2_BusWrongTypeStored ==
  \A i \in Ids :
    FromBus(i, JsonText(HotPayload)) /\ status[i] # "saving" /\ ~StoreFailed(i) =>
      /\ Cardinality(DocsOf(i)) = 1
      /\ \A j \in DocsOf(i) : db[j].f = Fields([humidity |-> Num(40)])

\* C3: a POST /energy body with temperature: "hot" is answered 400 with a
\* message naming temperature, and no document is stored or being saved
\* for it.
C3_ApiRejectionWritesNothing ==
  \A i \in Ids : FromApi(i, HotPayload) =>
    /\ status[i] = "400" /\ detail[i] = "temperature"
    /\ DocsOf(i) = {} /\ ~InFlight(i)
    /\ Cardinality(New) + Cardinality(pending) <= Len(inputs) - 1

C3_Witness ==
  \E i \in Ids : FromApi(i, HotPayload) /\ status[i] = "400" /\ Len(db) = 2

\* C4: a POST /energy body with humidity 150, level -5 and voltage -1 is
\* answered 400 and no document is stored or being saved for it.
C4_ApiOutOfRangeRejected ==
  \A i \in Ids : FromApi(i, RangePayload) =>
    status[i] = "400" /\ DocsOf(i) = {} /\ ~InFlight(i)

\* C5: an input passes validation when its POST body passes the schema, or
\* when its bus message parses and every field casts.  Each such input has
\* exactly one document, stored or being saved, unless the store failed on
\* it, and the collection holds no other document: with no save in flight and no
\* store failure there is one document per valid input, equal payloads
\* included.
PassesValidation(i) ==
  IF inputs[i].origin = "api"
    THEN SchemaValidate(inputs[i].raw).error = ""
    ELSE /\ JSONParse(inputs[i].raw).ok
         /\ JSONParse(inputs[i].raw).data # Null
         /\ \A k \in EnergyFields : ~CastFails(Get(JSONParse(inputs[i].raw).data, k))

C5_OneRecordPerValidInput ==
  /\ \A i \in Ids :
       IF PassesValidation(i) /\ ~StoreFailed(i)
         THEN Cardinality(DocsOf(i)) + (IF InFlight(i) THEN 1 ELSE 0) = 1
         ELSE DocsOf(i) = {}
  /\ \A j \in New : db[j].id \in Ids
  /\ (pending = {} /\ \A i \in Ids : ~StoreFailed(i)) =>
       Cardinality(New) = Cardinality({i \in Ids : PassesValidation(i)})

C5_Witness ==
  /\ pending = {}
  /\ \E a, b \in New :
       /\ a # b
       /\ db[a].origin = "bus" /\ db[b].origin = "api"
       /\ db[a].f = db[b].f /\ db[a].timestamp = db[b].timestamp

\* C6: bus messages are stored in the order they were delivered: of two
\* stored documents that came from the bus, the one delivered first was
\* inserted first.
C6_BusOrderPreserved ==
  \A a, b \in 1..Len(db) :
    a < b /\ db[a].origin = "bus" /\ db[b].origin = "bus" => db[a].id < db[b].id

\* C7: with at most QueryLimit documents stored, GET /energy returns them
\* in the reverse of their insertion order, timestamps strictly descending.
Reverse(seq) == [i \in 1..Len(seq) |-> seq[Len(seq) + 1 - i]]

C7_RecentReversesAppends ==
  query.status = 200 /\ Len(db) <= QueryLimit =>
    /\ query.result = Reverse(db)
    /\ \A i, j \in 1..Len(query.result) :
         i < j => query.result[i].timestamp > query.result[j].timestamp

\* C8: a GET /energy answered right after the bus delivered the example
\* message (no input handled in between, no store failure) has as its first
\* record the document of that message: the four delivered fields set, the
\* others unknown.
C8_BusReadingQueryable ==
  LET k == Len(inputs)
  IN  /\ query.status = 200
      /\ k >= 1
      /\ FromBus(k, JsonText(ExamplePayload))
      /\ ~StoreFailed(k)
      => /\ Len(query.result) >= 1
         /\ query.result[1].id = k
         /\ query.result[1].f = Fields(ExamplePayload)

\* C9: when the last document inserted came from a POST /energy (answered
\* 201), a GET /energy answered before any other insert has as its first
\* record a document equal to that Reading in every sensor field.
C9_ApiRoundTrip ==
  /\ query.status = 200
  /\ db # <<>>
  /\ db[Len(db)].origin = "api"
  => /\ status[db[Len(db)].id] = "201"
     /\ query.result[1].f = db[Len(db)].f

\* C10: a GET /energy answered 200 carries at most QueryLimit records,
\* whatever count the caller asked for and however many are stored.
C10_AtMostCap == query.status = 200 => Len(query.result) <= QueryLimit

C10_Witness ==
  /\ query.status = 200
  /\ query.limit > QueryLimit
  /\ Len(db) > QueryLimit
  /\ Len(query.result) = QueryLimit

\* C11: a GET /energy asking for fewer records than QueryLimit, answered 200
\* while more records than asked for are stored, carries exactly the count
\* asked for.
C11_LimitHonoured ==
  /\ query.status = 200
  /\ query.limit < QueryLimit
  /\ Len(db) > query.limit
  => Len(query.result) = query.limit

\* C12: an input carrying temperature 22 and the undeclared key unit,
\* from the bus or in a POST /energy, whose handling is over without a
\* store failure, has exactly one stored document: temperature 22, every
\* other field unknown.
C12_ExtraFieldsIgnored ==
  \A i \in Ids :
    Carries(i, ExtraPayload) /\ Ended(i) /\ ~StoreFailed(i) =>
      /\ Cardinality(DocsOf(i)) = 1
      /\ \A j \in DocsOf(i) : db[j].f = Fields([temperature |-> Num(22)])

\* C13: a partial report is a payload of declared keys only, each a number
\* or null.  Every input carrying one, from the bus or in a POST /energy,
\* whose handling is over without a store failure, has exactly one stored
\* document: the numbers it carried, every other field unknown.
PartialReports ==
  {p \in ShapePayloads :
     /\ DOMAIN p \subseteq EnergyFields
     /\ \A k \in DOMAIN p : IsNum(p[k]) \/ p[k] = Null}

C13_PartialReportsAccepted ==
  \A i \in Ids : \A p \in PartialReports :
    Carries(i, p) /\ Ended(i) /\ ~StoreFailed(i) =>
      /\ Cardinality(DocsOf(i)) = 1
      /\ \A j \in DocsOf(i) : db[j].f = Fields(p)

\* C14: in every document stored by this run, from either origin, a field
\* the input's payload did not carry is unknown (null, not 0) and a field
\* it carried as 0 is 0 (not unknown).
C14_ZeroIsNotUnknown ==
  \A j \in New :
    LET p == PayloadOf(inputs[db[j].id].raw)
    IN  \A k \in EnergyFields :
          /\ k \notin DOMAIN p => db[j].f[k] = Null /\ db[j].f[k] # Num(0)
          /\ Get(p, k) = Num(0) => db[j].f[k] = Num(0) /\ db[j].f[k] # Null

C14_Witness ==
  \E a, b \in New :
    /\ db[a].origin = "bus" /\ db[b].origin = "api"
    /\ Carries(db[a].id, ExamplePayload) /\ Carries(db[b].id, ExamplePayload)
    /\ db[a].f["gasDetected"] = Num(0) /\ db[b].f["gasDetected"] = Num(0)
    /\ db[a].f["level"] = Null /\ db[b].f["level"] = Null

\* C15: every document stored by this run has a timestamp: the one its
\* input carried when it carried one, and otherwise a reading of the clock
\* taken since the process started.
C15_TimestampFromInput ==
  \A j \in New :
    LET p == PayloadOf(inputs[db[j].id].raw)
    IN  IF IsNum(Get(p, "timestamp"))
          THEN db[j].timestamp = p["timestamp"].num
          ELSE db[j].timestamp \in 1..clock

\* C16: when save() fails in the store, a POST /energy is answered 500 (not
\* the 400 of a validation failure) and a bus message is logged as a save
\* error; for either, no document is stored and the save is not tried
\* again; an example message the bus delivers later is handled as usual.
C16_StoreFailureHandled ==
  \A i \in Ids : StoreFailed(i) =>
    /\ status[i] = IF inputs[i].origin = "api" THEN "500" ELSE "save error"
    /\ DocsOf(i) = {} /\ ~InFlight(i)
    /\ Cardinality(New) + Cardinality(pending) <= Len(inputs) - 1
    /\ \A j \in Ids : j > i /\ FromBus(j, JsonText(ExamplePayload)) =>
         \/ status[j] = "saving" /\ InFlight(j) /\ DocsOf(j) = {}
         \/ status[j] = "saved" /\ ~InFlight(j) /\ Cardinality(DocsOf(j)) = 1
         \/ StoreFailed(j) /\ ~InFlight(j) /\ DocsOf(j) = {}

C16_Witness ==
  \E i, j \in Ids :
    /\ i < j
    /\ inputs[i].origin = "bus" /\ StoreFailed(i) /\ DocsOf(i) = {}
    /\ FromBus(j, JsonText(ExamplePayload))
    /\ status[j] = "saved" /\ Cardinality(DocsOf(j)) = 1

\* C17: in every state after the startup checks of the configuration, the
\* process is running: no malformed payload, validation failure or failure
\* of the store ends it.
C17_ProcessKeepsRunning == process = "running"

\* C18: a bus message with humidity 150, level -5 and voltage -1 whose
\* handling is over without a store failure has exactly one stored
\* document, holding these values as received, and a warning was logged
\* for it.
C18_BusOutOfRangeWarned ==
  \A i \in Ids :
    FromBus(i, JsonText(RangePayload)) /\ Ended(i) /\ ~StoreFailed(i) =>
      /\ Cardinality(DocsOf(i)) = 1
      /\ \A j \in DocsOf(i) : db[j].f = Fields(RangePayload)
      /\ Warned(i)

\* C19: no step of the system changes or removes a stored document: every
\* document of the collection is, after the step, at the same place with
\* the same fields and timestamp.
C19_AppendOnly ==
  [][/\ Len(db') >= Len(db)
     /\ \A j \in 1..Len(db) : db'[j] = db[j]]_vars

C19_Witness ==
  /\ Len(db) >= 3
  /\ db[1] = OldDoc
  /\ db[2].timestamp = db[3].timestamp
  /\ query.status = 200

\* C20: when the same payload has come from the bus and in a POST /energy
\* and the handling of both is over without a store failure, either
\* neither has a stored document, or each has exactly one and the two
\* documents are equal in every sensor field.
C20_SameOutcomeBothOrigins ==
  \A i, j \in Ids :
    /\ inputs[i].origin = "bus" /\ inputs[j].origin = "api"
    /\ PayloadOf(inputs[i].raw) = PayloadOf(inputs[j].raw)
    /\ Ended(i) /\ Ended(j) /\ ~StoreFailed(i) /\ ~StoreFailed(j)
    => \/ DocsOf(i) = {} /\ DocsOf(j) = {}
       \/ /\ Cardinality(DocsOf(i)) = 1 /\ Cardinality(DocsOf(j)) = 1
          /\ \A a \in DocsOf(i), b \in DocsOf(j) : db[a].f = db[b].f

\* C21: whenever the MQTT client is connected, on the first connection and
\* after every reconnect, the subscription to maison/energie has been
\* issued on that connection (requested, granted or failed); a failed
\* subscription has been logged, and connections made after a failure
\* issue the subscription again.
C21_SubscribesOnEveryConnect ==
  /\ bus = "connected" => sub \in {"requested", "granted", "failed"}
  /\ bus # "connected" => sub = "none"
  /\ sub = "failed" => sublog >= 1
  /\ sublog <= connects

C21_Witness ==
  /\ sublog >= 1
  /\ connects >= 2
  /\ bus = "connected"
  /\ sub = "granted"
  /\ \E i \in Ids : inputs[i].origin = "bus" /\ status[i] = "saved"

C23_ConsistentPrefix ==
  query.status = 200 =>
    \A r \in 1..Len(query.result) : \A i \in Ids :
      /\ query.result[r].origin # "old"
      /\ i < query.result[r].id
      /\ inputs[i].origin = query.result[r].origin
      /\ \/ DocsOf(i) # {}
         \/ \E op \in pending : op.id = i /\ ~op.doc.castError
      => \/ \E q \in 1..Len(query.result) : query.result[q].id = i
         \/ DocsOf(i) # {} /\ Len(query.result) = QueryLimit

\* C24: every POST /energy is answered once, with 201, 400 or 500, and its
\* save is then over and not tried again; a request not answered yet is
\* still being served: its save is in flight and the process is running,
\* so that the settling of the save (or its timeout) answers it.
C24_EveryPostAnswered ==
  \A i \in Ids : inputs[i].origin = "api" =>
    \/ status[i] \in {"201", "400", "500"} /\ ~InFlight(i)
    \/ status[i] = "saving" /\ InFlight(i) /\ process = "running"

\* C25: a POST /energy answered 201 has its document in the collection,
\* exactly one, with the fields of the request's body; a POST answered 400
\* or 500 has no document, stored or being saved.
C25_AckImpliesStored ==
  \A i \in Ids : inputs[i].origin = "api" =>
    /\ status[i] = "201" =>
         /\ Cardinality(DocsOf(i)) = 1 /\ ~InFlight(i)
         /\ \A j \in DocsOf(i) : db[j].f = EnergyModel(inputs[i].raw, 0).f
    /\ status[i] \in {"400", "500"} => DocsOf(i) = {} /\ ~InFlight(i)

C25_Witness ==
  \E i, j \in Ids :
    /\ inputs[i].origin = "api" /\ status[i] = "201"
    /\ \E a \in DocsOf(i) : db[a].f = Fields(ExamplePayload)
    /\ inputs[j].origin = "api" /\ status[j] = "500" /\ DocsOf(j) = {}

\* C26: a step that answers a GET /energy, with 200 or with 500, leaves
\* the collection, the saves in flight and the bus connection with its
\* subscription as they were.
C26_QueryReadOnly ==
  [][query = NoQuery /\ query' # NoQuery =>
       /\ query'.status \in {200, 500}
       /\ db' = db /\ pending' = pending
       /\ bus' = bus /\ sub' = sub]_vars

C26_Witness ==
  /\ query.status = 200
  /\ Len(db) > QueryLimit
  /\ Len(query.result) < Len(db)
  /\ bus = "connected" /\ sub = "granted"

====
